---- MODULE Spec2Model ----
(***************************************************************************)
(* A model of mlflow-rs: the REST client's response classification, the   *)
(* ExperimentBuilder / ExperimentLoader chains and the configuration       *)
(* builder.  The tracking server is external: every send() draws its       *)
(* outcome (a transport failure, or a status and a body) from a small set. *)
(***************************************************************************)
EXTENDS Integers, Sequences, FiniteSets, TLC

VARIABLES
    chain,         \* the object the caller's fluent chain currently owns
    last,          \* the most recent call: operation, argument, requests sent, result
    http_count,    \* number of HTTP requests issued so far
    tags_arg,      \* history: the list given to the most recent with_tags ("<<>>" if none)
    tags_later,    \* history: the tags given to with_tag since then, in call order
    uri_provided   \* history: the URI last given to with_tracking_server_uri (None if never)

vars == <<chain, last, http_count, tags_arg, tags_later, uri_provided>>

(***************************************************************************)
(* Bounds of the model.                                                    *)
(***************************************************************************)
MaxTags == 3        \* longest tag list a builder is grown to
MaxTagsArg == 2     \* longest list handed to with_tags
MaxRequests == 3    \* HTTP requests issued in one behaviour

(***************************************************************************)
(* Option, Result and the error taxonomy.                                  *)
(***************************************************************************)
None == [tag |-> "None"]
Some(v) == [tag |-> "Some", val |-> v]
Ok(v) == [tag |-> "Ok", val |-> v]
Err(e) == [tag |-> "Err", err |-> e]

ExperimentBuilderError(m) == [kind |-> "ExperimentBuilderError", msg |-> m]
ExperimentNotFound(m) == [kind |-> "ExperimentNotFound", msg |-> m]
ClientError(m) == [kind |-> "ClientError", msg |-> m]
ResourceAlreadyExists(m) == [kind |-> "ResourceAlreadyExists", msg |-> m]
UnknownError(m) == [kind |-> "UnknownError", msg |-> m]
ConfigError(m) == [kind |-> "ConfigError", msg |-> m]

\* Display of MLFlowError (the #[error("...")] attributes).
to_string(e) ==
    CASE e.kind = "ExperimentBuilderError" -> "ExperimentBuilderError: " \o e.msg
      [] e.kind = "ExperimentNotFound" -> e.msg
      [] e.kind = "ClientError" -> "ClientError: " \o e.msg
      [] e.kind = "ResourceAlreadyExists" -> "ResourceAlreadyExists: " \o e.msg
      [] e.kind = "UnknownError" -> "UnknownError: " \o e.msg
      [] e.kind = "ConfigError" -> e.msg

(***************************************************************************)
(* JSON values, and the serde encodings and decodings of the wire types.   *)
(***************************************************************************)
JNull == [t |-> "null"]
JStr(s) == [t |-> "string", v |-> s]
JArr(s) == [t |-> "array", a |-> s]
JObj(f) == [t |-> "object", f |-> f]

\* The text of a reqwest decode error (produced by reqwest, opaque here).
DecodeErrorMsg == "error decoding response body"

HasField(o, k) == k \in DOMAIN o.f

\* A required String field.
decode_String(o, k) ==
    IF HasField(o, k) /\ o.f[k].t = "string" THEN Ok(o.f[k].v) ELSE Err(DecodeErrorMsg)

\* An Option<String> field: missing or null is None.
decode_Option_String(o, k) ==
    IF ~HasField(o, k) THEN Ok(None)
    ELSE IF o.f[k].t = "null" THEN Ok(None)
    ELSE IF o.f[k].t = "string" THEN Ok(Some(o.f[k].v))
    ELSE Err(DecodeErrorMsg)

\* A String written as a JSON value.
decode_String_value(v) ==
    IF v.t = "string" THEN Ok(v.v) ELSE Err(DecodeErrorMsg)

\* An Option<String> written as a JSON value: null is None.
decode_Option_String_value(v) ==
    IF v.t = "null" THEN Ok(None)
    ELSE IF v.t = "string" THEN Ok(Some(v.v))
    ELSE Err(DecodeErrorMsg)

\* A derived Deserialize reads a struct from a JSON object (visit_map) or from
\* a JSON array holding exactly its fields in declaration order (visit_seq).
decode_ExperimentTag(j) ==
    IF j.t = "object" /\ decode_String(j, "key").tag = "Ok" /\ decode_String(j, "value").tag = "Ok"
    THEN Ok([key |-> j.f["key"].v, value |-> j.f["value"].v])
    ELSE IF j.t = "array" /\ Len(j.a) = 2
            /\ decode_String_value(j.a[1]).tag = "Ok"
            /\ decode_String_value(j.a[2]).tag = "Ok"
    THEN Ok([key |-> j.a[1].v, value |-> j.a[2].v])
    ELSE Err(DecodeErrorMsg)

\* A Vec<ExperimentTag> written as a JSON value: an array of tags.
decode_Vec_ExperimentTag(v) ==
    IF v.t = "array" /\ \A i \in 1..Len(v.a) : decode_ExperimentTag(v.a[i]).tag = "Ok"
    THEN Ok([i \in 1..Len(v.a) |-> decode_ExperimentTag(v.a[i]).val])
    ELSE Err(DecodeErrorMsg)

\* The required Vec<ExperimentTag> field "tags".
decode_tags(o) ==
    IF HasField(o, "tags") THEN decode_Vec_ExperimentTag(o.f["tags"]) ELSE Err(DecodeErrorMsg)

\* MLFLowRestClient::default(), the value of a skipped field on decode.
DefaultClient == [host |-> ""]

decode_Experiment(j) ==
    IF j.t = "object"
       /\ decode_Option_String(j, "experiment_id").tag = "Ok"
       /\ decode_String(j, "name").tag = "Ok"
       /\ decode_Option_String(j, "artifact_location").tag = "Ok"
       /\ decode_tags(j).tag = "Ok"
    THEN Ok([experiment_id |-> decode_Option_String(j, "experiment_id").val,
             name |-> decode_String(j, "name").val,
             artifact_location |-> decode_Option_String(j, "artifact_location").val,
             tags |-> decode_tags(j).val,
             client |-> DefaultClient])
    ELSE IF j.t = "array" /\ Len(j.a) = 4
            /\ decode_Option_String_value(j.a[1]).tag = "Ok"
            /\ decode_String_value(j.a[2]).tag = "Ok"
            /\ decode_Option_String_value(j.a[3]).tag = "Ok"
            /\ decode_Vec_ExperimentTag(j.a[4]).tag = "Ok"
    THEN Ok([experiment_id |-> decode_Option_String_value(j.a[1]).val,
             name |-> decode_String_value(j.a[2]).val,
             artifact_location |-> decode_Option_String_value(j.a[3]).val,
             tags |-> decode_Vec_ExperimentTag(j.a[4]).val,
             client |-> DefaultClient])
    ELSE Err(DecodeErrorMsg)

\* Response::json::<CreateExperimentResponse>()
json_CreateExperimentResponse(body) ==
    IF body.json /\ body.value.t = "object" /\ decode_String(body.value, "experiment_id").tag = "Ok"
    THEN Ok([experiment_id |-> decode_String(body.value, "experiment_id").val])
    ELSE IF body.json /\ body.value.t = "array" /\ Len(body.value.a) = 1
            /\ decode_String_value(body.value.a[1]).tag = "Ok"
    THEN Ok([experiment_id |-> decode_String_value(body.value.a[1]).val])
    ELSE Err(DecodeErrorMsg)

\* Response::json::<GetExperimentResponse>()
json_GetExperimentResponse(body) ==
    IF body.json /\ body.value.t = "object" /\ HasField(body.value, "experiment")
       /\ decode_Experiment(body.value.f["experiment"]).tag = "Ok"
    THEN Ok([experiment |-> decode_Experiment(body.value.f["experiment"]).val])
    ELSE IF body.json /\ body.value.t = "array" /\ Len(body.value.a) = 1
            /\ decode_Experiment(body.value.a[1]).tag = "Ok"
    THEN Ok([experiment |-> decode_Experiment(body.value.a[1]).val])
    ELSE Err(DecodeErrorMsg)

ExperimentTag_from(kv) == [key |-> kv[1], value |-> kv[2]]

to_json_Option_String(o) == IF o.tag = "Some" THEN JStr(o.val) ELSE JNull

to_json_ExperimentTag(t) == JObj([key |-> JStr(t.key), value |-> JStr(t.value)])

\* Serialize for Experiment: the client field is skipped.
to_json_Experiment(e) ==
    JObj([experiment_id |-> to_json_Option_String(e.experiment_id),
          name |-> JStr(e.name),
          artifact_location |-> to_json_Option_String(e.artifact_location),
          tags |-> JArr([i \in 1..Len(e.tags) |-> to_json_ExperimentTag(e.tags[i])])])

(***************************************************************************)
(* The REST client.  `result` is what send() returned: Err(text of the     *)
(* transport error) or Ok([status, body]).                                 *)
(***************************************************************************)
NOT_FOUND == 404

DefaultHost == "http://localhost:5000"

MLFLowRestClient_new(host) == [host |-> host]

is_success_lax(status) == 200 <= status /\ status < 400

is_success(status) == 200 <= status /\ status <= 299

_process_get_no_404(result) ==
    IF result.tag = "Ok" THEN
        IF is_success(result.val.status) THEN
            IF json_GetExperimentResponse(result.val.body).tag = "Ok"
            THEN Ok(json_GetExperimentResponse(result.val.body).val)
            ELSE Err(UnknownError(json_GetExperimentResponse(result.val.body).err))
        ELSE Err(UnknownError("error finding experiment"))
    ELSE Err(UnknownError(result.err))

_process_get_decode_not_found(result) ==
    IF result.tag = "Ok" THEN
        IF is_success(result.val.status) THEN
            IF json_GetExperimentResponse(result.val.body).tag = "Ok"
            THEN Ok(json_GetExperimentResponse(result.val.body).val)
            ELSE Err(ExperimentNotFound("experiment was not found"))
        ELSE IF result.val.status = NOT_FOUND
        THEN Err(ExperimentNotFound("experiment was not found"))
        ELSE Err(UnknownError("error finding experiment"))
    ELSE Err(UnknownError(result.err))

_process_get(result) ==
    IF result.tag = "Ok" THEN
        IF is_success(result.val.status) THEN
            IF json_GetExperimentResponse(result.val.body).tag = "Ok"
            THEN Ok(json_GetExperimentResponse(result.val.body).val)
            ELSE Err(UnknownError(json_GetExperimentResponse(result.val.body).err))
        ELSE IF result.val.status = NOT_FOUND
        THEN Err(ExperimentNotFound("experiment was not found"))
        ELSE Err(UnknownError("error finding experiment"))
    ELSE Err(UnknownError(result.err))

\* The requests the three operations send.
create_request(client, experiment) ==
    [method |-> "POST",
     url |-> client.host \o "/api/2.0/mlflow/experiments/create",
     query |-> None,
     json |-> Some(to_json_Experiment(experiment))]

get_by_id_request(client, id) ==
    [method |-> "GET",
     url |-> client.host \o "/api/2.0/mlflow/experiments/get",
     query |-> Some(<<"experiment_id", id>>),
     json |-> None]

get_by_name_request(client, name) ==
    [method |-> "GET",
     url |-> client.host \o "/api/2.0/mlflow/experiments/get-by-name",
     query |-> Some(<<"experiment_name", name>>),
     json |-> None]

create_experiment_like_get(result) ==
    IF result.tag = "Ok" THEN
        IF is_success(result.val.status) THEN
            IF json_CreateExperimentResponse(result.val.body).tag = "Ok"
            THEN Ok(json_CreateExperimentResponse(result.val.body).val)
            ELSE Err(UnknownError(json_CreateExperimentResponse(result.val.body).err))
        ELSE IF result.val.status = NOT_FOUND
        THEN Err(ExperimentNotFound("experiment was not found"))
        ELSE Err(UnknownError("Could not create experiment"))
    ELSE Err(UnknownError(result.err))

create_experiment_conflict(result) ==
    IF result.tag = "Ok" THEN
        IF is_success(result.val.status) THEN
            IF json_CreateExperimentResponse(result.val.body).tag = "Ok"
            THEN Ok(json_CreateExperimentResponse(result.val.body).val)
            ELSE Err(UnknownError(json_CreateExperimentResponse(result.val.body).err))
        ELSE IF result.val.status = 409
        THEN Err(ResourceAlreadyExists("experiment already exists"))
        ELSE Err(UnknownError("Could not create experiment"))
    ELSE Err(UnknownError(result.err))

\* create_experiment, given what its send() returned.
create_experiment(result) ==
    IF result.tag = "Ok" THEN
        IF is_success(result.val.status) THEN
            IF json_CreateExperimentResponse(result.val.body).tag = "Ok"
            THEN Ok(json_CreateExperimentResponse(result.val.body).val)
            ELSE Err(UnknownError(json_CreateExperimentResponse(result.val.body).err))
        ELSE Err(UnknownError("Could not create experiment"))
    ELSE Err(UnknownError(result.err))

get_experiment_by_id(result) == _process_get(result)

get_experiment_by_name(result) == _process_get(result)

(***************************************************************************)
(* ExperimentBuilder.                                                      *)
(***************************************************************************)
ExperimentBuilder_new_unchecked(name) ==
    Ok([name |-> name,
        artifact_location |-> None,
        tags |-> <<>>,
        client |-> MLFLowRestClient_new(DefaultHost)])

ExperimentBuilder_new(name) ==
    IF name = ""
    THEN Err(ExperimentBuilderError("name cannot be empty"))
    ELSE Ok([name |-> name,
             artifact_location |-> None,
             tags |-> <<>>,
             client |-> MLFLowRestClient_new(DefaultHost)])

with_tag(b, tag) == [b EXCEPT !.tags = Append(@, ExperimentTag_from(tag))]

with_tags_extend(b, tags) ==
    [b EXCEPT !.tags = @ \o [i \in 1..Len(tags) |-> ExperimentTag_from(tags[i])]]

with_tags(b, tags) ==
    [b EXCEPT !.tags = [i \in 1..Len(tags) |-> ExperimentTag_from(tags[i])]]

with_rest_client(b, client) == [b EXCEPT !.client = client]

\* The Experiment build() assembles and hands to create_experiment.
build_experiment(b) ==
    [experiment_id |-> None,
     name |-> b.name,
     artifact_location |-> b.artifact_location,
     tags |-> b.tags,
     client |-> b.client]

build_without_id(b, result) ==
    IF create_experiment(result).tag = "Ok"
    THEN Ok(build_experiment(b))
    ELSE Err(create_experiment(result).err)

\* build(), given what the create request's send() returned.
build(b, result) ==
    IF create_experiment(result).tag = "Ok"
    THEN Ok([build_experiment(b) EXCEPT
                !.experiment_id = Some(create_experiment(result).val.experiment_id)])
    ELSE Err(create_experiment(result).err)

(***************************************************************************)
(* ExperimentLoader.                                                       *)
(***************************************************************************)
ExperimentLoader_default == [client |-> None]

with_client(l, client) == [l EXCEPT !.client = Some(client)]

ById(id) == [variant |-> "ById", val |-> id]
ByName(name) == [variant |-> "ByName", val |-> name]

\* The client load() uses: the configured one, or the local default.
load_client(l) ==
    IF l.client.tag = "Some" THEN l.client.val ELSE MLFLowRestClient_new(DefaultHost)

load_request(l, experiment_identifier) ==
    IF experiment_identifier.variant = "ById"
    THEN get_by_id_request(load_client(l), experiment_identifier.val)
    ELSE get_by_name_request(load_client(l), experiment_identifier.val)

load_pass_through(experiment_identifier, result) ==
    IF _process_get(result).tag = "Ok"
    THEN Ok(_process_get(result).val.experiment)
    ELSE Err(_process_get(result).err)

\* load(), given what the retrieval's send() returned.
load(experiment_identifier, result) ==
    IF experiment_identifier.variant = "ById" THEN
        IF get_experiment_by_id(result).tag = "Ok"
        THEN Ok(get_experiment_by_id(result).val.experiment)
        ELSE Err(UnknownError(to_string(get_experiment_by_id(result).err)))
    ELSE
        IF get_experiment_by_name(result).tag = "Ok"
        THEN Ok(get_experiment_by_name(result).val.experiment)
        ELSE Err(get_experiment_by_name(result).err)

(***************************************************************************)
(* Configuration.                                                          *)
(***************************************************************************)
DefaultTrackingServerUri == "http://localhost:5000"

ConfigBuilder_unset == [tracking_server_uri |-> None]

ConfigBuilder_default == [tracking_server_uri |-> Some(DefaultTrackingServerUri)]

with_tracking_server_uri(cb, tracking_server_uri) ==
    [cb EXCEPT !.tracking_server_uri = Some(tracking_server_uri)]

try_build_default_uri(cb) ==
    IF cb.tracking_server_uri.tag = "Some" /\ cb.tracking_server_uri.val = ""
    THEN Err(ConfigError("empty tracking server uri"))
    ELSE Ok([tracking_server_uri |-> DefaultTrackingServerUri,
             client |-> MLFLowRestClient_new(DefaultTrackingServerUri)])

try_build(cb) ==
    IF cb.tracking_server_uri.tag = "Some" THEN
        IF cb.tracking_server_uri.val = ""
        THEN Err(ConfigError("empty tracking server uri"))
        ELSE Ok([tracking_server_uri |-> cb.tracking_server_uri.val,
                 client |-> MLFLowRestClient_new(cb.tracking_server_uri.val)])
    ELSE Err(ConfigError("tracking server uri was not set"))

\* ConfigBuilder::build: try_build().unwrap(), which panics on an error.
Panic(e) == [tag |-> "Panic", err |-> e]

ConfigBuilder_build(cb) ==
    IF try_build(cb).tag = "Ok" THEN try_build(cb) ELSE Panic(try_build(cb).err)

get_tracking_server_uri(cfg) == cfg.tracking_server_uri

get_client(cfg) == cfg.client

(***************************************************************************)
(* Inputs.                                                                 *)
(***************************************************************************)
Names == {"", "exp"}
Ids == {"7"}
Hosts == {DefaultHost, "http://mlflow:5001"}
Uris == {"", "http://localhost:5001"}

\* Two tags that share a key, and one with an empty key and value.
TagInputs == {<<"k", "v1">>, <<"k", "v2">>, <<"", "">>}

SeqsUpTo(S, n) == UNION {[1..m -> S] : m \in 0..n}

TagLists == SeqsUpTo(TagInputs, MaxTagsArg)

ExperimentJson ==
    JObj([experiment_id |-> JStr("7"),
          name |-> JStr("exp"),
          artifact_location |-> JNull,
          tags |-> JArr(<<JObj([key |-> JStr("k"), value |-> JStr("v1")])>>)])

\* The same kind of record written as arrays: the fields in declaration order.
ExperimentArrayJson ==
    JArr(<<JNull, JStr("exp"), JStr("loc"), JArr(<<JArr(<<JStr("k"), JStr("v2")>>)>>)>>)

Bodies ==
    { [json |-> FALSE, text |-> "<html>"],
      [json |-> TRUE, value |-> JObj([experiment_id |-> JStr("7")])],
      [json |-> TRUE, value |-> JObj([experiment_id |-> JNull])],
      [json |-> TRUE, value |-> JObj([experiment |-> ExperimentJson])],
      [json |-> TRUE, value |-> JObj([experiment |-> JObj([name |-> JStr("exp")])])],
      [json |-> TRUE, value |-> JObj([error_code |-> JStr("RESOURCE_DOES_NOT_EXIST")])],
      [json |-> TRUE, value |-> JArr(<<JStr("8")>>)],
      [json |-> TRUE, value |-> JArr(<<ExperimentArrayJson>>)] }

Statuses == {200, 201, 204, 302, 400, 404, 409, 500}

TransportErrors == {"error sending request"}

\* What a send() can return.
SendResults ==
    {Err(e) : e \in TransportErrors}
    \cup {Ok([status |-> s, body |-> b]) : s \in Statuses, b \in Bodies}

\* Experiments handed directly to create_experiment.
Experiments ==
    {build_experiment(with_tags(ExperimentBuilder_new("exp").val, ts)) : ts \in {<<>>, <<<<"k", "v1">>>>}}

(***************************************************************************)
(* The state machine: one action per call of the library.                  *)
(***************************************************************************)
NoObject == [type |-> "None"]
Object(type, obj) == [type |-> type, obj |-> obj]

Call(op, arg, sent, response, result) ==
    [op |-> op, arg |-> arg, sent |-> sent, response |-> response, result |-> result]

Init ==
    /\ chain = NoObject
    /\ last = Call("none", None, <<>>, None, None)
    /\ http_count = 0
    /\ tags_arg = <<>>
    /\ tags_later = <<>>
    /\ uri_provided = None

NewBuilder(name) ==
    /\ chain' = IF ExperimentBuilder_new(name).tag = "Ok"
                THEN Object("ExperimentBuilder", ExperimentBuilder_new(name).val)
                ELSE NoObject
    /\ last' = Call("ExperimentBuilder::new", name, <<>>, None, ExperimentBuilder_new(name))
    /\ tags_arg' = <<>>
    /\ tags_later' = <<>>
    /\ uri_provided' = None
    /\ UNCHANGED http_count

WithTag(tag) ==
    /\ chain.type = "ExperimentBuilder"
    /\ Len(chain.obj.tags) < MaxTags
    /\ chain' = Object("ExperimentBuilder", with_tag(chain.obj, tag))
    /\ last' = Call("with_tag", tag, <<>>, None, None)
    /\ tags_later' = Append(tags_later, ExperimentTag_from(tag))
    /\ UNCHANGED <<http_count, tags_arg, uri_provided>>

WithTags(tags) ==
    /\ chain.type = "ExperimentBuilder"
    /\ chain' = Object("ExperimentBuilder", with_tags(chain.obj, tags))
    /\ last' = Call("with_tags", tags, <<>>, None, None)
    /\ tags_arg' = [i \in 1..Len(tags) |-> ExperimentTag_from(tags[i])]
    /\ tags_later' = <<>>
    /\ UNCHANGED <<http_count, uri_provided>>

WithRestClient(host) ==
    /\ chain.type = "ExperimentBuilder"
    /\ chain' = Object("ExperimentBuilder", with_rest_client(chain.obj, MLFLowRestClient_new(host)))
    /\ last' = Call("with_rest_client", host, <<>>, None, None)
    /\ UNCHANGED <<http_count, tags_arg, tags_later, uri_provided>>

Build(result) ==
    /\ chain.type = "ExperimentBuilder"
    /\ http_count < MaxRequests
    /\ chain' = NoObject
    /\ last' = Call("build", chain.obj,
                    <<create_request(chain.obj.client, build_experiment(chain.obj))>>,
                    result, build(chain.obj, result))
    /\ http_count' = http_count + 1
    /\ tags_arg' = <<>>
    /\ tags_later' = <<>>
    /\ UNCHANGED uri_provided

NewLoader ==
    /\ chain' = Object("ExperimentLoader", ExperimentLoader_default)
    /\ last' = Call("ExperimentLoader::default", None, <<>>, None, None)
    /\ tags_arg' = <<>>
    /\ tags_later' = <<>>
    /\ uri_provided' = None
    /\ UNCHANGED http_count

WithClient(host) ==
    /\ chain.type = "ExperimentLoader"
    /\ chain' = Object("ExperimentLoader", with_client(chain.obj, MLFLowRestClient_new(host)))
    /\ last' = Call("with_client", host, <<>>, None, None)
    /\ UNCHANGED <<http_count, tags_arg, tags_later, uri_provided>>

Load_retry(experiment_identifier, result) ==
    /\ chain.type = "ExperimentLoader"
    /\ http_count < MaxRequests
    /\ chain' = NoObject
    /\ last' = Call("load", experiment_identifier,
                    IF load(experiment_identifier, result).tag = "Err"
                    THEN <<load_request(chain.obj, experiment_identifier),
                           load_request(chain.obj, experiment_identifier)>>
                    ELSE <<load_request(chain.obj, experiment_identifier)>>,
                    result, load(experiment_identifier, result))
    /\ http_count' = http_count + (IF load(experiment_identifier, result).tag = "Err" THEN 2 ELSE 1)
    /\ UNCHANGED <<tags_arg, tags_later, uri_provided>>

Load(experiment_identifier, result) ==
    /\ chain.type = "ExperimentLoader"
    /\ http_count < MaxRequests
    /\ chain' = NoObject
    /\ last' = Call("load", experiment_identifier,
                    <<load_request(chain.obj, experiment_identifier)>>,
                    result, load(experiment_identifier, result))
    /\ http_count' = http_count + 1
    /\ UNCHANGED <<tags_arg, tags_later, uri_provided>>

NewClient(host) ==
    /\ chain' = Object("MLFLowRestClient", MLFLowRestClient_new(host))
    /\ last' = Call("MLFLowRestClient::new", host, <<>>, None, None)
    /\ tags_arg' = <<>>
    /\ tags_later' = <<>>
    /\ uri_provided' = None
    /\ UNCHANGED http_count

\* The client's three operations, called directly on a client (&self: it stays).
CreateExperiment(experiment, result) ==
    /\ chain.type = "MLFLowRestClient"
    /\ http_count < MaxRequests
    /\ last' = Call("create_experiment", experiment,
                    <<create_request(chain.obj, experiment)>>,
                    result, create_experiment(result))
    /\ http_count' = http_count + 1
    /\ UNCHANGED <<chain, tags_arg, tags_later, uri_provided>>

GetExperimentById(id, result) ==
    /\ chain.type = "MLFLowRestClient"
    /\ http_count < MaxRequests
    /\ last' = Call("get_experiment_by_id", id,
                    <<get_by_id_request(chain.obj, id)>>,
                    result, get_experiment_by_id(result))
    /\ http_count' = http_count + 1
    /\ UNCHANGED <<chain, tags_arg, tags_later, uri_provided>>

GetExperimentByName(name, result) ==
    /\ chain.type = "MLFLowRestClient"
    /\ http_count < MaxRequests
    /\ last' = Call("get_experiment_by_name", name,
                    <<get_by_name_request(chain.obj, name)>>,
                    result, get_experiment_by_name(result))
    /\ http_count' = http_count + 1
    /\ UNCHANGED <<chain, tags_arg, tags_later, uri_provided>>

NewConfigBuilder ==
    /\ chain' = Object("ConfigBuilder", ConfigBuilder_default)
    /\ last' = Call("ConfigBuilder::default", None, <<>>, None, None)
    /\ tags_arg' = <<>>
    /\ tags_later' = <<>>
    /\ uri_provided' = None
    /\ UNCHANGED http_count

WithTrackingServerUri(uri) ==
    /\ chain.type = "ConfigBuilder"
    /\ chain' = Object("ConfigBuilder", with_tracking_server_uri(chain.obj, uri))
    /\ last' = Call("with_tracking_server_uri", uri, <<>>, None, None)
    /\ uri_provided' = Some(uri)
    /\ UNCHANGED <<http_count, tags_arg, tags_later>>

TryBuild ==
    /\ chain.type = "ConfigBuilder"
    /\ chain' = NoObject
    /\ last' = Call("try_build", chain.obj, <<>>, None, try_build(chain.obj))
    /\ UNCHANGED <<http_count, tags_arg, tags_later, uri_provided>>

ConfigBuild ==
    /\ chain.type = "ConfigBuilder"
    /\ chain' = NoObject
    /\ last' = Call("ConfigBuilder::build", chain.obj, <<>>, None, ConfigBuilder_build(chain.obj))
    /\ UNCHANGED <<http_count, tags_arg, tags_later, uri_provided>>

Next ==
    \/ \E name \in Names : NewBuilder(name)
    \/ \E tag \in TagInputs : WithTag(tag)
    \/ \E tags \in TagLists : WithTags(tags)
    \/ \E host \in Hosts : WithRestClient(host)
    \/ \E result \in SendResults : Build(result)
    \/ NewLoader
    \/ \E host \in Hosts : WithClient(host)
    \/ \E id \in Ids, result \in SendResults : Load(ById(id), result)
    \/ \E name \in Names, result \in SendResults : Load(ByName(name), result)
    \/ \E host \in Hosts : NewClient(host)
    \/ \E e \in Experiments, result \in SendResults : CreateExperiment(e, result)
    \/ \E id \in Ids, result \in SendResults : GetExperimentById(id, result)
    \/ \E name \in Names, result \in SendResults : GetExperimentByName(name, result)
    \/ NewConfigBuilder
    \/ \E uri \in Uris : WithTrackingServerUri(uri)
    \/ TryBuild
    \/ ConfigBuild

Spec == Init /\ [][Next]_vars

(***************************************************************************)
(* Properties.                                                             *)
(***************************************************************************)
IsRetrieval == last.op \in {"get_experiment_by_id", "get_experiment_by_name"}

Answered == last.response.tag = "Ok"

Status2xx == last.response.val.status \in 200..299

\* C1: a retrieval (by id or by name) whose response has status 404 returns
\* ExperimentNotFound with the message "experiment was not found", whatever
\* the body holds.
C1_NotFoundOn404 ==
    (IsRetrieval /\ Answered /\ last.response.val.status = 404)
        => last.result = Err(ExperimentNotFound("experiment was not found"))

\* C1 witness: get_experiment_by_id answered 404 with a body that would decode
\* as an experiment, and the not-found error returned.
C1_Witness ==
    /\ last.op = "get_experiment_by_id"
    /\ Answered
    /\ last.response.val.status = 404
    /\ last.response.val.body = [json |-> TRUE, value |-> JObj([experiment |-> ExperimentJson])]
    /\ last.result.tag = "Err"
    /\ last.result.err.kind = "ExperimentNotFound"

\* C2: when the retrieval fails, load with ByName returns the client's error
\* unchanged (ExperimentNotFound on a 404), and load with ById returns
\* UnknownError for every client error, never ExperimentNotFound.
C2_LoadErrorAsymmetry ==
    /\ (last.op = "load" /\ last.arg.variant = "ByName"
            /\ get_experiment_by_name(last.response).tag = "Err")
           => last.result = get_experiment_by_name(last.response)
    /\ (last.op = "load" /\ last.arg.variant = "ByName"
            /\ Answered /\ last.response.val.status = 404)
           => last.result = Err(ExperimentNotFound("experiment was not found"))
    /\ (last.op = "load" /\ last.arg.variant = "ById"
            /\ get_experiment_by_id(last.response).tag = "Err")
           => (last.result.tag = "Err" /\ last.result.err.kind = "UnknownError")
    /\ (last.op = "load" /\ last.arg.variant = "ById" /\ last.result.tag = "Err")
           => last.result.err.kind # "ExperimentNotFound"

\* C2 witness: load(ById) answered 404 returns the not-found text re-wrapped
\* as UnknownError.
C2_Witness ==
    /\ last.op = "load"
    /\ last.arg.variant = "ById"
    /\ Answered
    /\ last.response.val.status = 404
    /\ last.result = Err(UnknownError("experiment was not found"))

\* C3: ExperimentBuilder::new succeeds for every non-empty name; for the empty
\* name it fails with ExperimentBuilderError, and the call issues no HTTP
\* request.
C3_NewValidatesName ==
    /\ [](last.op = "ExperimentBuilder::new" =>
            /\ last.arg # "" =>
                  /\ last.result.tag = "Ok"
                  /\ last.result.val.name = last.arg
                  /\ chain = Object("ExperimentBuilder", last.result.val)
            /\ last.arg = "" =>
                  /\ last.result.tag = "Err"
                  /\ last.result.err.kind = "ExperimentBuilderError"
                  /\ last.sent = <<>>
                  /\ chain = NoObject)
    /\ [][last'.op = "ExperimentBuilder::new" => http_count' = http_count]_vars

\* C3 witness: new("") failed before any request was ever issued.
C3_Witness ==
    /\ last.op = "ExperimentBuilder::new"
    /\ last.arg = ""
    /\ last.result = Err(ExperimentBuilderError("name cannot be empty"))
    /\ http_count = 0

\* C4: when the create request is answered 2xx with a body holding the
\* identifier X, build returns an Experiment with experiment_id Some(X) and the
\* builder's name, artifact_location and tags (in order); a built Experiment
\* never lacks its identifier, and the Experiment sent in the request has none.
C4_BuildAssignsId ==
    /\ (last.op = "build" /\ Answered /\ Status2xx
            /\ last.response.val.body.json
            /\ last.response.val.body.value.t = "object"
            /\ "experiment_id" \in DOMAIN last.response.val.body.value.f
            /\ last.response.val.body.value.f["experiment_id"].t = "string")
           => /\ last.result.tag = "Ok"
              /\ last.result.val.experiment_id
                     = Some(last.response.val.body.value.f["experiment_id"].v)
    /\ (last.op = "build" /\ Answered /\ Status2xx
            /\ last.response.val.body.json
            /\ last.response.val.body.value.t = "array"
            /\ Len(last.response.val.body.value.a) = 1
            /\ last.response.val.body.value.a[1].t = "string")
           => /\ last.result.tag = "Ok"
              /\ last.result.val.experiment_id = Some(last.response.val.body.value.a[1].v)
    /\ (last.op = "build" /\ Answered /\ Status2xx
            /\ json_CreateExperimentResponse(last.response.val.body).tag = "Ok")
           => /\ last.result.tag = "Ok"
              /\ last.result.val.name = last.arg.name
              /\ last.result.val.artifact_location = last.arg.artifact_location
              /\ last.result.val.tags = last.arg.tags
    /\ (last.op = "build" /\ last.result.tag = "Ok")
           => last.result.val.experiment_id.tag = "Some"
    /\ last.op = "build"
           => /\ Len(last.sent) = 1
              /\ last.sent[1].json.val.f["experiment_id"] = JNull
              /\ last.sent[1].json.val.f["name"] = JStr(last.arg.name)

\* C4 witness: a builder with two tags built against a 201 answer holding "7".
C4_Witness ==
    /\ last.op = "build"
    /\ Answered
    /\ last.response.val.status = 201
    /\ Len(last.arg.tags) = 2
    /\ last.arg.tags[1] # last.arg.tags[2]
    /\ last.result.tag = "Ok"
    /\ last.result.val.experiment_id = Some("7")
    /\ last.result.val.tags = last.arg.tags

\* C5: a retrieval whose response status is neither 2xx nor 404 returns
\* UnknownError with the message "error finding experiment".
C5_OtherStatusUnknownError ==
    (IsRetrieval /\ Answered /\ ~Status2xx /\ last.response.val.status # 404)
        => last.result = Err(UnknownError("error finding experiment"))

\* C5 witness: get_experiment_by_name answered 500.
C5_Witness ==
    /\ last.op = "get_experiment_by_name"
    /\ Answered
    /\ last.response.val.status = 500
    /\ last.result = Err(UnknownError("error finding experiment"))

\* C6: a retrieval answered 2xx with a body that does not decode into a record
\* holding one Experiment returns UnknownError; a retrieval succeeds only on a
\* 2xx answer whose body decodes, and then returns the decoded record.
C6_UndecodableBodyUnknownError ==
    /\ (IsRetrieval /\ Answered /\ Status2xx
            /\ json_GetExperimentResponse(last.response.val.body).tag = "Err")
           => (last.result.tag = "Err" /\ last.result.err.kind = "UnknownError")
    /\ (IsRetrieval /\ last.result.tag = "Ok")
           => /\ Answered
              /\ Status2xx
              /\ last.result = json_GetExperimentResponse(last.response.val.body)

\* C6 witness: get_experiment_by_id answered 200 with an experiment that lacks
\* its tags.
C6_Witness ==
    /\ last.op = "get_experiment_by_id"
    /\ Answered
    /\ last.response.val.status = 200
    /\ last.response.val.body
           = [json |-> TRUE, value |-> JObj([experiment |-> JObj([name |-> JStr("exp")])])]
    /\ last.result.tag = "Err"
    /\ last.result.err.kind = "UnknownError"

\* C7: every failure of create_experiment, and so of build, is an UnknownError:
\* a transport failure, any non-2xx status (404 and 409 included) and a 2xx
\* answer whose body holds no identifier.
C7_CreateFailuresUnknownError ==
    /\ (last.op \in {"create_experiment", "build"} /\ last.result.tag = "Err")
           => last.result.err.kind = "UnknownError"
    /\ (last.op \in {"create_experiment", "build"}
            /\ ~(Answered /\ Status2xx
                 /\ json_CreateExperimentResponse(last.response.val.body).tag = "Ok"))
           => last.result.tag = "Err"

\* C7 witness: build answered 404.
C7_Witness ==
    /\ last.op = "build"
    /\ Answered
    /\ last.response.val.status = 404
    /\ last.result = Err(UnknownError("Could not create experiment"))

\* C8: validating a configuration whose URI was set to "" fails with
\* ConfigError "empty tracking server uri"; with a non-empty URI u set, the
\* build succeeds and get_tracking_server_uri() returns u.
C8_ConfigValidation ==
    /\ (last.op = "try_build" /\ uri_provided = Some(""))
           => last.result = Err(ConfigError("empty tracking server uri"))
    /\ (last.op \in {"try_build", "ConfigBuilder::build"}
            /\ uri_provided.tag = "Some" /\ uri_provided.val # "")
           => /\ last.result.tag = "Ok"
              /\ get_tracking_server_uri(last.result.val) = uri_provided.val

\* C8 witness: try_build after with_tracking_server_uri("").
C8_Witness ==
    /\ last.op = "try_build"
    /\ uri_provided = Some("")
    /\ last.result = Err(ConfigError("empty tracking server uri"))

\* C9 as claimed: validation fails with a config error when no URI was ever
\* provided to the configuration builder.
C9_FailsWhenNeverProvided ==
    (last.op = "try_build" /\ uri_provided = None)
        => (last.result.tag = "Err" /\ last.result.err.kind = "ConfigError")

\* C9 amended: a builder to which no URI was ever provided holds the default
\* URI and validates successfully with it; try_build answers an absent URI with
\* ConfigError "tracking server uri was not set", but no builder operation
\* leaves the URI absent, so validation only ever fails for the empty URI.
C9_DefaultUriValidates ==
    /\ chain.type = "ConfigBuilder" => chain.obj.tracking_server_uri.tag = "Some"
    /\ (last.op = "try_build" /\ uri_provided = None)
           => /\ last.result.tag = "Ok"
              /\ get_tracking_server_uri(last.result.val) = "http://localhost:5000"
    /\ (last.op = "try_build" /\ last.result.tag = "Err")
           => /\ uri_provided = Some("")
              /\ last.result.err = ConfigError("empty tracking server uri")
    /\ try_build([tracking_server_uri |-> None])
           = Err(ConfigError("tracking server uri was not set"))

\* C9 witness: try_build on a fresh default builder succeeded.
C9_Witness ==
    /\ last.op = "try_build"
    /\ uri_provided = None
    /\ last.result.tag = "Ok"

FluentOps == {"with_tag", "with_tags", "with_rest_client"}

\* C10: the builder's tag list is the list given to the most recent with_tags
\* (empty if none) followed by the tags of the later with_tag calls in call
\* order, duplicates kept; with_tag grows the list by one, with_tags drops the
\* earlier tags, and none of the three fluent calls changes the name, fails or
\* issues a request.
C10_TagList ==
    /\ [](chain.type = "ExperimentBuilder" => chain.obj.tags = tags_arg \o tags_later)
    /\ [][last'.op \in FluentOps =>
            /\ chain.type = "ExperimentBuilder"
            /\ chain'.type = "ExperimentBuilder"
            /\ chain'.obj.name = chain.obj.name
            /\ chain'.obj.artifact_location = chain.obj.artifact_location
            /\ http_count' = http_count
            /\ last'.sent = <<>>
            /\ last'.op = "with_tag" =>
                  /\ Len(chain'.obj.tags) = Len(chain.obj.tags) + 1
                  /\ SubSeq(chain'.obj.tags, 1, Len(chain.obj.tags)) = chain.obj.tags
                  /\ chain'.obj.tags[Len(chain'.obj.tags)]
                         = [key |-> last'.arg[1], value |-> last'.arg[2]]
            /\ last'.op = "with_tags" =>
                  /\ Len(chain'.obj.tags) = Len(last'.arg)
                  /\ \A i \in 1..Len(last'.arg) :
                         chain'.obj.tags[i] = [key |-> last'.arg[i][1], value |-> last'.arg[i][2]]
            /\ last'.op = "with_rest_client" => chain'.obj.tags = chain.obj.tags]_vars

\* C10 witness: a with_tags list of one tag followed by two with_tag calls that
\* repeat its key, one of them with an empty key.
C10_Witness ==
    /\ chain.type = "ExperimentBuilder"
    /\ Len(tags_arg) = 1
    /\ Len(tags_later) = 2
    /\ Len(chain.obj.tags) = 3
    /\ chain.obj.tags[1].key = chain.obj.tags[2].key
    /\ chain.obj.tags[3].key = ""
    /\ chain.obj.name = "exp"

RequestOps ==
    {"create_experiment", "get_experiment_by_id", "get_experiment_by_name", "build", "load"}

\* The send() of the last call failed: no answer, an error status, or a 2xx
\* answer whose body does not decode into what the operation expects.
RequestFailed ==
    \/ ~Answered
    \/ ~Status2xx
    \/ /\ last.op \in {"create_experiment", "build"}
       /\ json_CreateExperimentResponse(last.response.val.body).tag = "Err"
    \/ /\ last.op \in {"get_experiment_by_id", "get_experiment_by_name", "load"}
       /\ json_GetExperimentResponse(last.response.val.body).tag = "Err"

\* C11: every call of create_experiment, get_experiment_by_id,
\* get_experiment_by_name, build and load sends exactly one HTTP request,
\* whatever its outcome; a failed request is not sent again, and the call
\* returns an error for it.
C11_OneRequestPerCall ==
    /\ [](last.op \in RequestOps =>
            /\ Len(last.sent) = 1
            /\ RequestFailed => last.result.tag = "Err"
            /\ last.result.tag \in {"Ok", "Err"})
    /\ [][(last'.op \in RequestOps /\ vars' # vars) => http_count' = http_count + 1]_vars
    /\ [][last'.op \notin RequestOps => http_count' = http_count]_vars

\* C11 witness: a load whose request met a transport failure, as the only
\* request ever sent, returned the failure.
C11_Witness ==
    /\ last.op = "load"
    /\ last.arg.variant = "ByName"
    /\ last.response.tag = "Err"
    /\ Len(last.sent) = 1
    /\ http_count = 1
    /\ last.result = Err(UnknownError("error sending request"))

\* The last call ended in an error: returned, or raised by unwrap.
Failed == last.result.tag \in {"Err", "Panic"}

\* C12: no call returns ClientError or ResourceAlreadyExists, whatever the
\* input and the server's answer; ExperimentNotFound comes only from a
\* retrieval answered 404, ExperimentBuilderError only from
\* ExperimentBuilder::new, and ConfigError only from configuration validation.
C12_ErrorKindsByOrigin ==
    Failed =>
        /\ last.result.err.kind \notin {"ClientError", "ResourceAlreadyExists"}
        /\ last.result.err.kind
               \in {"ExperimentBuilderError", "ExperimentNotFound", "UnknownError", "ConfigError"}
        /\ last.result.err.kind = "ExperimentNotFound" =>
              /\ \/ last.op \in {"get_experiment_by_id", "get_experiment_by_name"}
                 \/ last.op = "load" /\ last.arg.variant = "ByName"
              /\ last.response.tag = "Ok"
              /\ last.response.val.status = 404
        /\ last.result.err.kind = "ExperimentBuilderError" =>
              last.op = "ExperimentBuilder::new"
        /\ last.result.err.kind = "ConfigError" =>
              last.op \in {"try_build", "ConfigBuilder::build"}

\* C12 witness: create_experiment answered 409 (a duplicate name) returned the
\* catch-all UnknownError.
C12_Witness ==
    /\ last.op = "create_experiment"
    /\ last.response.tag = "Ok"
    /\ last.response.val.status = 409
    /\ last.result = Err(UnknownError("Could not create experiment"))

====
